---- MODULE Spec2Model ----
(***************************************************************************)
(* Model of the two command-line examples of the repository:               *)
(*   examples/argparse/cli-app-argparse.py  (class CmdApp)                 *)
(*   examples/typer/cli-app-typer.py        (cli_run, main, handlers,      *)
(*                                           clean_terminate)              *)
(* One behaviour is one process run: the invocation is fixed in Init, the  *)
(* actions are the steps the process takes until it exits.                 *)
(***************************************************************************)
EXTENDS Integers, Sequences, FiniteSets, TLC

VARIABLES app, argv, package, pc, level, setCount, ctx_obj, ran, err, out,
          exit_code, exit_via

vars == <<app, argv, package, pc, level, setCount, ctx_obj, ran, err, out,
          exit_code, exit_via>>

(* ---------------------------------------------------------------------- *)
(* Bounds                                                                  *)
(* ---------------------------------------------------------------------- *)
\* largest number of repetitions of -v in an invocation
MaxVerbose == 5

(* ---------------------------------------------------------------------- *)
(* logging severities (cli-app-typer.py lines 141-146)                     *)
(* ---------------------------------------------------------------------- *)
CRITICAL == 50
ERROR == 40
WARNING == 30
INFO == 20
DEBUG == 10
NOTSET == 0

\* exit status of an argument-parser usage error (argparse / click)
UsageExit == 2
\* exit status the interpreter gives a run ended by an uncaught exception
UncaughtExit == 1
\* the range of a process exit status
ExitModulus == 256

(* ---------------------------------------------------------------------- *)
(* Errors                                                                  *)
(* ---------------------------------------------------------------------- *)
\* clean_terminate: the tuple user_errors
user_errors ==
    {"PermissionError", "FileExistsError", "FileNotFoundError",
     "InterruptedError", "IsADirectoryError", "NotADirectoryError",
     "TimeoutError", "MyAppException"}

\* other exception classes a handler can raise; MyAppSubError stands for an
\* application class derived from MyAppException
OtherClasses == {"OSError", "ConnectionError", "ValueError", "TypeError", "MyAppSubError"}

\* the direct base class
Base(cls) ==
    CASE cls = "MyAppSubError" -> "MyAppException"
      [] cls \in {"PermissionError", "FileExistsError", "FileNotFoundError",
                  "InterruptedError", "IsADirectoryError", "NotADirectoryError",
                  "TimeoutError", "ConnectionError"} -> "OSError"
      [] cls \in {"OSError", "ValueError", "TypeError", "MyAppException"} -> "Exception"
      [] OTHER -> "BaseException"

\* the class and its base classes
RECURSIVE Ancestors(_)
Ancestors(cls) ==
    IF cls \in {"Exception", "BaseException"} THEN {cls} ELSE {cls} \cup Ancestors(Base(cls))

\* classes deriving from OSError: their instances always have an errno
\* attribute, which is None when the instance is built from a message only
OSErrorClasses == {c \in user_errors \cup OtherClasses : "OSError" \in Ancestors(c)}

\* values an rc or errno attribute takes in the model
Codes == {0, 1, 2, 255, 256}

\* an error instance: its class and the attributes clean_terminate reads.
\*   has_rc/rc       : the rc attribute, when there is one
\*   errno_kind      : "absent" (no attribute), "none" (attribute is None),
\*                     "int" (attribute is the integer errno)
\*   advice          : "<absent>", "" or a text
Errors ==
    { e \in [cls : user_errors \cup OtherClasses, has_rc : BOOLEAN, rc : Codes,
             errno_kind : {"absent", "none", "int"}, errno : Codes,
             advice : {"<absent>", "", "hint"}] :
        /\ (~e.has_rc => e.rc = 0)
        /\ (e.errno_kind # "int" => e.errno = 0)
        /\ (e.cls \in OSErrorClasses => e.errno_kind # "absent")
        /\ ("MyAppException" \in Ancestors(e.cls) => e.has_rc) }

NoError == [cls |-> "<none>", has_rc |-> FALSE, rc |-> 0, errno_kind |-> "absent",
            errno |-> 0, advice |-> "<absent>"]

\* the TypeError of subscripting None (cli_command1, ctx.obj["myapp"])
NoneSubscriptError == [cls |-> "TypeError", has_rc |-> FALSE, rc |-> 0,
                       errno_kind |-> "absent", errno |-> 0, advice |-> "<absent>"]

(* ---------------------------------------------------------------------- *)
(* Output events                                                           *)
(* ---------------------------------------------------------------------- *)
Log(lvl, msg, name, code) == [ch |-> "log", lvl |-> lvl, msg |-> msg, name |-> name, code |-> code]
Stdout(msg) == [ch |-> "stdout", lvl |-> NOTSET, msg |-> msg, name |-> "", code |-> 0]
Stderr(msg) == [ch |-> "stderr", lvl |-> NOTSET, msg |-> msg, name |-> "", code |-> 0]
ExitEvent(code) == [ch |-> "exit", lvl |-> NOTSET, msg |-> "exit", name |-> "", code |-> code]

\* logging: a record passes a logger when its severity reaches the logger's
\* effective level (a NOTSET logger inherits the root's level)
EffectiveLevel(lv, logger) == IF lv[logger] # NOTSET THEN lv[logger] ELSE lv["root"]

Emit(lv, logger, records) ==
    SelectSeq(records, LAMBDA r : r.lvl >= EffectiveLevel(lv, logger))

(* ---------------------------------------------------------------------- *)
(* Invocations                                                             *)
(* ---------------------------------------------------------------------- *)
Apps == {"argparse", "typer"}

\* subcommands each example registers with its parser
Registered(a) ==
    IF a = "argparse"
    THEN {"demo", "subcommand2"}
    ELSE {"help", "logging", "command1", "group1 ls", "group1 install", "group1 update"}

\* an invocation, as the parser sees it:
\*   verbose  : number of -v / --verbose
\*   version  : --version / -V is present
\*   command  : the subcommand token, "none" when there is none, "bogus" for
\*              a token that is no registered subcommand
\*   globalOk : the options before the subcommand are all known and well formed
\*   subOk    : the options and arguments after the subcommand are accepted
\*              by the subcommand's parser
Invocations(a) ==
    { i \in [verbose : 0..MaxVerbose, version : BOOLEAN,
             command : Registered(a) \cup {"none", "bogus"},
             globalOk : BOOLEAN, subOk : BOOLEAN] :
        (i.command \in {"none", "bogus"} => i.subOk) }

\* the invocation has no token at all
NoArgs(i) == i.verbose = 0 /\ ~i.version /\ i.command = "none" /\ i.globalOk

Init ==
    /\ app \in Apps
    /\ argv \in Invocations(app)
    /\ package \in (IF app = "typer" THEN {"None", "my_app"} ELSE {"None"})
    /\ pc = "start"
    /\ level = [root |-> WARNING, app |-> NOTSET]
    /\ setCount = 0
    /\ ctx_obj = "None"
    /\ ran = <<>>
    /\ err = NoError
    /\ out = <<>>
    /\ exit_code = -1
    /\ exit_via = "running"

\* the process ends with sys.exit(code) or its equivalent: the exit status is
\* the low byte of the code
Terminate(events, code, via) ==
    /\ pc' = "done"
    /\ out' = out \o events \o <<ExitEvent(code)>>
    /\ exit_code' = code % ExitModulus
    /\ exit_via' = via

(* ---------------------------------------------------------------------- *)
(* examples/argparse/cli-app-argparse.py                                   *)
(* ---------------------------------------------------------------------- *)
\* CmdApp.get_args: parser.parse_args() either fills self.args or reports a
\* usage error on stderr and exits with status 2
get_args ==
    /\ app = "argparse"
    /\ pc = "start"
    /\ IF \/ ~argv.globalOk
          \/ argv.version
          \/ argv.command = "bogus"
          \/ ~argv.subOk
       THEN /\ Terminate(<<Stderr("usage")>>, UsageExit, "parser")
       ELSE /\ pc' = "get_logger"
            /\ UNCHANGED <<out, exit_code, exit_via>>
    /\ UNCHANGED <<app, argv, package, level, setCount, ctx_obj, ran, err>>

\* get_loglevel with a fallback of NOTSET instead of DEBUG
get_loglevel_notset(verbose) ==
    CASE verbose = 0 -> ERROR
      [] verbose = 1 -> WARNING
      [] verbose = 2 -> INFO
      [] OTHER -> NOTSET

\* CmdApp.get_logger: the table of lines 64-71
get_loglevel(verbose) ==
    CASE verbose = 0 -> ERROR
      [] verbose = 1 -> WARNING
      [] verbose = 2 -> INFO
      [] OTHER -> DEBUG

get_logger ==
    /\ app = "argparse"
    /\ pc = "get_logger"
    /\ level' = [level EXCEPT !["app"] = get_loglevel(argv.verbose)]
    /\ setCount' = setCount + 1
    /\ pc' = "cli"
    /\ UNCHANGED <<app, argv, package, ctx_obj, ran, err, out, exit_code, exit_via>>

\* hasattr(self, "cli_" + command)
HasHandler(command) == command \in {"demo"}

\* CmdApp.cli_demo: four records through self.log
cli_demo ==
    Emit(level, "app",
         << Log(ERROR, "Test Critical message", "", 0),
            Log(WARNING, "Test Warning message", "", 0),
            Log(INFO, "Test Info message", "", 0),
            Log(DEBUG, "Command line vars", "", 0) >>)

\* cli that configures the logger a second time, with the default count
cli_relog ==
    /\ app = "argparse"
    /\ pc = "cli"
    /\ level' = [level EXCEPT !["app"] = get_loglevel(0)]
    /\ setCount' = setCount + 1
    /\ IF argv.command # "none" /\ HasHandler(argv.command)
       THEN /\ ran' = Append(ran, argv.command)
            /\ out' = out \o cli_demo
       ELSE /\ out' = out \o Emit(level, "app", <<Log(ERROR, "Missing sub command", "", 0)>>)
            /\ UNCHANGED ran
    /\ pc' = "returned"
    /\ UNCHANGED <<app, argv, package, ctx_obj, err, exit_code, exit_via>>

\* CmdApp.cli: dispatch on self.args.command
cli ==
    /\ app = "argparse"
    /\ pc = "cli"
    /\ IF argv.command # "none"
       THEN IF HasHandler(argv.command)
            THEN /\ ran' = Append(ran, argv.command)
                 /\ out' = out \o cli_demo
            ELSE /\ out' = out \o Emit(level, "app",
                              <<Log(ERROR, "Subcommand does not exists", argv.command, 0)>>)
                 /\ UNCHANGED ran
       ELSE /\ out' = out \o Emit(level, "app", <<Log(ERROR, "Missing sub command", "", 0)>>)
                          \o <<Stdout("help")>>
            /\ UNCHANGED ran
    /\ pc' = "returned"
    /\ UNCHANGED <<app, argv, package, level, setCount, ctx_obj, err, exit_code, exit_via>>

\* the script ends after CmdApp() returns: the interpreter exits with status 0
script_end ==
    /\ app = "argparse"
    /\ pc = "returned"
    /\ Terminate(<<>>, 0, "return")
    /\ UNCHANGED <<app, argv, package, level, setCount, ctx_obj, ran, err>>

(* ---------------------------------------------------------------------- *)
(* examples/typer/cli-app-typer.py                                         *)
(* ---------------------------------------------------------------------- *)
app_version == "0.1.0"

\* typer.Option(0, "--verbose", "-v", count=True, min=0, max=3)
VerboseMax == 3

\* exit status of the help shown for an empty invocation (no_args_is_help):
\* the parser library exits with 0 or with its usage status, by its version
NoArgsExit == {0, UsageExit}

\* cli_run, first part: cli_app() parses the options of the application and
\* resolves the subcommand name, before the callback main is invoked
cli_run ==
    /\ app = "typer"
    /\ pc = "start"
    /\ IF NoArgs(argv)
       THEN \E code \in NoArgsExit : Terminate(<<Stdout("help")>>, code, "parser")
       ELSE IF \/ ~argv.globalOk
               \/ argv.verbose > VerboseMax
               \/ argv.command = "bogus"
            THEN Terminate(<<Stderr("usage")>>, UsageExit, "parser")
            ELSE /\ pc' = "main"
                 /\ UNCHANGED <<out, exit_code, exit_via>>
    /\ UNCHANGED <<app, argv, package, level, setCount, ctx_obj, ran, err>>

\* main_level starting from ERROR instead of WARNING
main_level_from_error(verbose) ==
    LET v == 40 - (verbose * 10)
    IN  IF v > 10 THEN v ELSE DEBUG

\* main, lines 148-149: the threshold computed from the count
main_level(verbose) ==
    LET v == 30 - (verbose * 10)
    IN  IF v > 10 THEN v ELSE DEBUG

\* main, line 147: logging.getLogger(None if verbose >= 3 else __package__)
main_logger(verbose, pkg) ==
    IF verbose >= 3 \/ pkg = "None" THEN "root" ELSE "app"

\* main: the callback of the application
main ==
    /\ app = "typer"
    /\ pc = "main"
    /\ level' = [level EXCEPT ![main_logger(argv.verbose, package)] = main_level(argv.verbose)]
    /\ setCount' = setCount + 1
    /\ IF argv.version
       THEN /\ out' = Append(out, Stdout(app_version))
            /\ UNCHANGED ctx_obj
       ELSE /\ ctx_obj' = "myapp"
            /\ UNCHANGED out
    /\ pc' = "dispatch"
    /\ UNCHANGED <<app, argv, package, ran, err, exit_code, exit_via>>

\* after main returns the application either ends (no subcommand), or parses
\* the subcommand's own options and enters its handler
cli_app_invoke ==
    /\ app = "typer"
    /\ pc = "dispatch"
    /\ IF argv.command = "none"
       THEN /\ Terminate(<<>>, 0, "sys.exit")
            /\ UNCHANGED ran
       ELSE IF ~argv.subOk
            THEN /\ Terminate(<<Stderr("usage")>>, UsageExit, "parser")
                 /\ UNCHANGED ran
            ELSE /\ ran' = Append(ran, argv.command)
                 /\ pc' = "handler"
                 /\ UNCHANGED <<out, exit_code, exit_via>>
    /\ UNCHANGED <<app, argv, package, level, setCount, ctx_obj, err>>

\* cli_logging: four records through the root logger
cli_logging ==
    Emit(level, "root",
         << Log(CRITICAL, "SHOW CRITICAL", "", 0),
            Log(ERROR, "SHOW ERROR", "", 0),
            Log(WARNING, "SHOW WARNING", "", 0),
            Log(INFO, "SHOW INFO", "", 0) >>)

\* what a handler writes when its body runs to its end
HandlerOutput(command) ==
    CASE command = "help" -> <<Stdout("help")>>
      [] command = "logging" -> cli_logging
      [] command = "command1" -> <<Stdout("Run MyApp"), Stdout("Hello World")>>
      [] OTHER -> <<Stdout("Executed before all source commands"), Stdout(command)>>

\* cli_command1, line 205: ctx.obj["myapp"] fails when main left ctx.obj unset
cli_command1_fails == argv.command = "command1" /\ ctx_obj = "None"

\* a handler runs to its end and the application exits with status 0
handler_return ==
    /\ app = "typer"
    /\ pc = "handler"
    /\ ~cli_command1_fails
    /\ Terminate(HandlerOutput(argv.command), 0, "sys.exit")
    /\ UNCHANGED <<app, argv, package, level, setCount, ctx_obj, ran, err>>

\* an error escapes the handler: the TypeError of line 205, or an error of
\* the application code the handler calls (MyApp.fail, a file operation)
handler_raise ==
    /\ app = "typer"
    /\ pc = "handler"
    /\ IF cli_command1_fails
       THEN err' = NoneSubscriptError
       ELSE err' \in Errors
    /\ pc' = "except"
    /\ UNCHANGED <<app, argv, package, level, setCount, ctx_obj, ran, out, exit_code,
                   exit_via>>

\* isinstance against the base class OSError as well
IsUserError_base(e) == Ancestors(e.cls) \cap (user_errors \cup {"OSError"}) # {}

\* clean_terminate, line 269: isinstance(err, user_errors)
IsUserError(e) == Ancestors(e.cls) \cap user_errors # {}

\* clean_terminate, line 272: int(getattr(err, "rc", getattr(err, "errno", 1)))
\* is defined unless the value found is None
RcDefined(e) == e.has_rc \/ e.errno_kind # "none"

RcOf(e) ==
    IF e.has_rc THEN e.rc
    ELSE IF e.errno_kind = "int" THEN e.errno
    ELSE 1

\* line 284
InternalErrorExit == 255

\* clean_terminate(err), called from the except clause of cli_run
clean_terminate ==
    /\ app = "typer"
    /\ pc = "except"
    /\ IF IsUserError(err)
       THEN IF RcDefined(err)
            THEN Terminate(
                   Emit(level, "root",
                        (IF err.advice \notin {"<absent>", ""}
                         THEN <<Log(WARNING, "advice", "", 0)>> ELSE <<>>)
                        \o << Log(ERROR, "err", "", 0),
                              Log(CRITICAL, "MyApp exited with error", err.cls, RcOf(err)) >>),
                   RcOf(err), "sys.exit")
            ELSE \* int(None) raises TypeError inside the except clause
                 Terminate(<<Stderr("Traceback")>>, UncaughtExit, "uncaught")
       ELSE Terminate(
              Emit(level, "root",
                   << Log(ERROR, "traceback", "", 0),
                      Log(CRITICAL, "Uncatched error", err.cls, 0),
                      Log(CRITICAL, "This is a bug, please report it.", "", 0) >>),
              InternalErrorExit, "sys.exit")
    /\ UNCHANGED <<app, argv, package, level, setCount, ctx_obj, ran, err>>

(* ---------------------------------------------------------------------- *)
(* Specification                                                           *)
(* ---------------------------------------------------------------------- *)
Next ==
    \/ get_args
    \/ get_logger
    \/ cli
    \/ script_end
    \/ cli_run
    \/ main
    \/ cli_app_invoke
    \/ handler_return
    \/ handler_raise
    \/ clean_terminate

Spec == Init /\ [][Next]_vars

TypeOK ==
    /\ app \in Apps
    /\ pc \in {"start", "get_logger", "cli", "returned", "main", "dispatch", "handler",
               "except", "done"}
    /\ setCount \in 0..1
    /\ exit_code \in -1..(ExitModulus - 1)

(* ---------------------------------------------------------------------- *)
(* Observations used by the properties                                     *)
(* ---------------------------------------------------------------------- *)
\* the logger whose threshold the run configured, and that threshold
ConfiguredLogger ==
    IF app = "argparse" \/ (argv.verbose < 3 /\ package # "None") THEN "app" ELSE "root"

ConfiguredLevel == level[ConfiguredLogger]

\* everything written except plain standard output
Diagnostics == SelectSeq(out, LAMBDA r : r.ch # "stdout")

Printed(msg) == \E i \in 1..Len(out) : out[i].ch = "stdout" /\ out[i].msg = msg

ErrorNaming(command) ==
    \E i \in 1..Len(out) : out[i].ch = "log" /\ out[i].lvl = ERROR /\ out[i].name = command

\* the exit code a claim associates with an error: rc, else errno, else 1
AssociatedCode(e) ==
    IF e.has_rc THEN e.rc
    ELSE IF e.errno_kind = "int" THEN e.errno
    ELSE 1

\* the error is of the closed user-facing set: of one of its classes, or of
\* a class derived from one
InClosedSet(e) ==
    \/ e.cls \in {"PermissionError", "FileExistsError", "FileNotFoundError",
                   "InterruptedError", "IsADirectoryError", "NotADirectoryError",
                   "TimeoutError", "MyAppException"}
    \/ e.cls = "MyAppSubError"

UserErrorEscaped == pc = "done" /\ err # NoError /\ InClosedSet(err)

OtherErrorEscaped == pc = "done" /\ err # NoError /\ ~InClosedSet(err)

(* ---------------------------------------------------------------------- *)
(* C1                                                                      *)
(* ---------------------------------------------------------------------- *)
\* C1: for every error of the closed user-facing set that escapes a handler,
\* clean_terminate ends the process by its exit call with the code of the
\* error (rc if it has one, otherwise errno if it has one, otherwise 1), and
\* no further command runs.
C1_UserErrorExitCode ==
    UserErrorEscaped =>
        /\ exit_via = "sys.exit"
        /\ exit_code = AssociatedCode(err) % ExitModulus
        /\ Len(ran) = 1

(* ---------------------------------------------------------------------- *)
(* C2                                                                      *)
(* ---------------------------------------------------------------------- *)
\* C2: every error outside the closed user-facing set that escapes the
\* application ends the process with exit code 255, whatever its class and
\* its rc and errno attributes.
C2_InternalErrorExit ==
    OtherErrorEscaped => exit_code = 255 /\ exit_via = "sys.exit"

\* an OSError that carries both an rc and an errno still exits with 255
C2_Witness ==
    /\ OtherErrorEscaped
    /\ err.cls = "OSError" /\ err.has_rc /\ err.rc = 1
    /\ err.errno_kind = "int" /\ err.errno = 2
    /\ exit_code = 255

(* ---------------------------------------------------------------------- *)
(* C3                                                                      *)
(* ---------------------------------------------------------------------- *)
\* C3: in the argparse example, a parsed command without a cli_<name> method
\* gets an error naming the command, no handler is invoked, and the process
\* exits with a non-zero code.
C3_UnknownHandlerExit ==
    (/\ app = "argparse" /\ pc = "done" /\ exit_via # "parser"
     /\ argv.command \notin {"none", "demo"})
    => /\ ErrorNaming(argv.command)
       /\ ran = <<>>
       /\ exit_code # 0

(* ---------------------------------------------------------------------- *)
(* C4                                                                      *)
(* ---------------------------------------------------------------------- *)
\* C4: in the typer example an accepted invocation with the version flag
\* prints the version, runs no subcommand handler and exits with code 0,
\* whatever else is on the command line.
C4_VersionShortCircuit ==
    (app = "typer" /\ pc = "done" /\ exit_via # "parser" /\ argv.version)
    => /\ Printed(app_version)
       /\ ran = <<>>
       /\ exit_code = 0

(* ---------------------------------------------------------------------- *)
(* C5                                                                      *)
(* ---------------------------------------------------------------------- *)
\* the table of the claim
ClaimedLevel(count) ==
    CASE count = 0 -> 40
      [] count = 1 -> 30
      [] count = 2 -> 20
      [] OTHER -> 10

\* C5 (as stated): in both examples a count in 0..3 configures the threshold
\* of the table 0 -> ERROR, 1 -> WARNING, 2 -> INFO, 3 -> DEBUG.
C5_SameTable ==
    (setCount = 1 /\ argv.verbose <= 3) => ConfiguredLevel = ClaimedLevel(argv.verbose)

\* the table of the typer callback
TyperLevel(count) ==
    CASE count = 0 -> 30
      [] count = 1 -> 20
      [] OTHER -> 10

\* C5 (amended): a count in 0..3 configures ERROR, WARNING, INFO, DEBUG in
\* the argparse example and WARNING, INFO, DEBUG, DEBUG in the typer example;
\* the two examples agree at count 3 only.
C5_TwoTables ==
    (setCount = 1 /\ argv.verbose <= 3) =>
        /\ app = "argparse" => ConfiguredLevel = ClaimedLevel(argv.verbose)
        /\ app = "typer" => ConfiguredLevel = TyperLevel(argv.verbose)
        /\ (ClaimedLevel(argv.verbose) = TyperLevel(argv.verbose)) <=> (argv.verbose = 3)

\* the typer example configured WARNING for a count of 0
C5_Witness ==
    app = "typer" /\ setCount = 1 /\ argv.verbose = 0 /\ ConfiguredLevel = 30

(* ---------------------------------------------------------------------- *)
(* C6                                                                      *)
(* ---------------------------------------------------------------------- *)
\* C6: the mapping from count to threshold is a monotonic clamp: a larger
\* count never gives a higher threshold, every count of 3 or more gives
\* DEBUG, and no count gives a threshold below DEBUG.
C6_MonotonicClamp ==
    /\ \A a, b \in 0..MaxVerbose :
         a <= b => /\ get_loglevel(b) <= get_loglevel(a)
                   /\ main_level(b) <= main_level(a)
    /\ \A c \in 0..MaxVerbose :
         /\ get_loglevel(c) >= 10 /\ main_level(c) >= 10
         /\ c >= 3 => get_loglevel(c) = 10 /\ main_level(c) = 10
    /\ setCount = 1 =>
         /\ ConfiguredLevel >= 10
         /\ argv.verbose >= 3 => ConfiguredLevel = 10

\* a run with more than three -v configured DEBUG
C6_Witness ==
    setCount = 1 /\ argv.verbose > 3 /\ ConfiguredLevel = 10

(* ---------------------------------------------------------------------- *)
(* C7                                                                      *)
(* ---------------------------------------------------------------------- *)
\* the runs C7 is about: the else branch of CmdApp.cli, and the empty
\* invocation of the typer application (no_args_is_help)
NoCommandRun ==
    /\ pc = "done"
    /\ argv.command = "none"
    /\ \/ app = "argparse" /\ exit_via # "parser"
       \/ app = "typer" /\ NoArgs(argv)

\* C7: an invocation without a subcommand prints the help text, invokes no
\* handler and exits with a non-zero status.
C7_NoCommandExit ==
    NoCommandRun => Printed("help") /\ ran = <<>> /\ exit_code # 0

(* ---------------------------------------------------------------------- *)
(* C8                                                                      *)
(* ---------------------------------------------------------------------- *)
\* C8: no error of the closed user-facing set ends the process with the
\* internal-error code 255, whatever its rc or errno, and the process exits
\* with 0 only when no error escaped the handler.
C8_SentinelDistinct ==
    /\ UserErrorEscaped => exit_code # 255
    /\ (pc = "done" /\ exit_code = 0) => err = NoError

(* ---------------------------------------------------------------------- *)
(* C9                                                                      *)
(* ---------------------------------------------------------------------- *)
\* C9: for a user-facing error the diagnostics are, in this order, the advice
\* (only when it is not empty) at WARNING, the error at ERROR, the summary
\* naming the class and the code at CRITICAL, then the exit with that code,
\* and no traceback; for any other error they are the traceback at ERROR, the
\* two CRITICAL messages, then the exit.
C9_TerminateOrder ==
    /\ UserErrorEscaped =>
         LET code == IF Diagnostics = <<>> THEN 0 ELSE Diagnostics[Len(Diagnostics)].code
         IN Diagnostics =
               (IF err.advice \notin {"<absent>", ""}
                THEN <<Log(30, "advice", "", 0)>> ELSE <<>>)
               \o << Log(40, "err", "", 0),
                     Log(50, "MyApp exited with error", err.cls, code),
                     ExitEvent(code) >>
    /\ OtherErrorEscaped =>
         Diagnostics =
            << Log(40, "traceback", "", 0),
               Log(50, "Uncatched error", err.cls, 0),
               Log(50, "This is a bug, please report it.", "", 0),
               ExitEvent(255) >>

====
